---- MODULE Spec2Model ----
(***************************************************************************)
(* Model of the workspace client of desktop/src/client/client.ts: the      *)
(* start-command cache, the multicast stream of a running start command,   *)
(* and the asynchronous `start` / `subscribeToStart` / `getStatus` calls.  *)
(*                                                                         *)
(* Scheduling is single-threaded and cooperative: one action of the model  *)
(* is one run-to-completion segment of a call (from one `await` to the     *)
(* next), or one step of the environment (a promise settling, a stream     *)
(* event being emitted).                                                   *)
(***************************************************************************)
EXTENDS Integers, Sequences, FiniteSets, TLC

\* ---- bounds ----
NumWorkspaces == 2
NumViews == 2
MaxCalls == 2
MaxSubs == 1
MaxUnsubs == 2

Workspaces == 1..NumWorkspaces
Views == 1..NumViews
Statuses == {"Running", "Stopped"}

\* "no value": an empty cache slot, a call that awaits no operation
None == 0

VARIABLES
    streaming, \* whether the start command type has a stream of progress events
    cache,     \* startCommandCache: workspace id -> running command (None: no entry)
    ops,       \* the start commands issued so far, in order of connect
    calls,     \* the invocations of start, in order of invocation
    subs,      \* the invocations of subscribeToStart, in order of invocation
    event      \* the command that emitted a stream event in the step just taken (None: none)

vars == <<streaming, cache, ops, calls, subs, event>>

\* ---- lib: exists, noop ----
exists(x) == x # None

\* the function that does nothing, as a listener
noop == -1

\* ---- createStartHandler ----
\* faulty variant: every handler gets the same id, whatever its view
createStartHandlerOneId(viewID, listener) ==
    [id |-> 1, eq |-> viewID, notify |-> IF exists(listener) THEN listener ELSE noop]

\* a handler closes over viewID: `id` is its field, `eq` the id its eq(other)
\* compares other.id with
createStartHandler(viewID, listener) ==
    [id |-> viewID, eq |-> viewID, notify |-> IF exists(listener) THEN listener ELSE noop]

\* faulty variant: eq by object identity instead of by ViewID
HandlerEqIdentity(handler, other) == handler = other

\* handler.eq(other)
HandlerEq(handler, other) == handler.eq = other.id

\* ---- handler registry of one stream ----
\* subscribe(handler): a handler equal (eq) to the new one is replaced by it
Subscribe(handlers, handler) ==
    {h \in handlers : ~HandlerEq(handler, h)} \cup {handler}

\* the unsubscribe function returned by subscribe(handler)
Unsubscribe(handlers, handler) ==
    {h \in handlers : ~HandlerEq(handler, h)}

\* ---- start command cache ----
Get(id) == cache[id]

Clear(c, id) == [c EXCEPT ![id] = None]

\* connect(id, cmd): runs the command and stores it under id
Connect(c, id, op) == [c EXCEPT ![id] = op]

\* ---- listeners ----
\* every call passes a listener function of its own
StartListener(n) == 2 * n
SubListener(n) == 2 * n + 1

\* ---- history of attachment, kept apart from the registry ----
\* the listeners a stream is expected to serve: the latest one of every view
Attach(att, viewID, listener) ==
    {a \in att : a.view # viewID} \cup {[view |-> viewID, lst |-> listener]}

Detach(att, viewID) == {a \in att : a.view # viewID}

\* stream?.(handler) on the command op
StreamAttach(o, op, viewID, listener) ==
    IF streaming
    THEN [o EXCEPT ![op].handlers = Subscribe(@, createStartHandler(viewID, listener)),
                   ![op].att = Attach(@, viewID, listener)]
    ELSE o

NoResult == [kind |-> "pending", val |-> "none"]
Resolved(status) == [kind |-> "resolved", val |-> status]
Rejected(err) == [kind |-> "rejected", val |-> err]

\* Workspace and view ids are opaque and only compared for equality, so a
\* call draws its id among the ids in use and one new id.
UsedW == {calls[i].w : i \in 1..Len(calls)} \cup {subs[i].w : i \in 1..Len(subs)}
UsedV == {calls[i].v : i \in 1..Len(calls)} \cup {subs[i].v : i \in 1..Len(subs)}
IdsW == {id \in Workspaces : id <= Cardinality(UsedW) + 1}
IdsV == {id \in Views : id <= Cardinality(UsedV) + 1}

Init ==
    /\ streaming \in BOOLEAN
    /\ cache = [id \in Workspaces |-> None]
    /\ ops = <<>>
    /\ calls = <<>>
    /\ subs = <<>>
    /\ event = None

\* ---- start: from the invocation to the first await (lines 139-146, 151) ----
\* history: the earlier calls for id that have not run their finally block
Unfinished(id) == {i \in 1..Len(calls) : calls[i].w = id /\ ~calls[i].cleared}

StartBegin(id, viewID) ==
    /\ Len(calls) < MaxCalls
    /\ LET n == Len(calls) + 1
           maybeRunningCommand == Get(id)
           join == exists(maybeRunningCommand)
       IN /\ calls' = Append(calls,
                 [w |-> id, v |-> viewID,
                  pc |-> IF join THEN "awaitJoin" ELSE "awaitCreate",
                  op |-> maybeRunningCommand,
                  cmd |-> None,
                  queried |-> FALSE,
                  status |-> "none",
                  cleared |-> FALSE,
                  clearedAt |-> 0,
                  orphan |-> FALSE,
                  overlap |-> Unfinished(id),
                  log |-> <<>>,
                  result |-> NoResult])
          /\ ops' = IF join
                    THEN StreamAttach(ops, maybeRunningCommand, viewID, StartListener(n))
                    ELSE ops
    /\ event' = None
    /\ UNCHANGED <<streaming, cache, subs>>

\* ---- start, launch path: createCommand settles (line 151), then connect ----
\* faulty variant: no cleanup
FinallyNothing(c, id) == c

\* faulty variant: the cleanup empties the whole cache
FinallyAll(c, id) == [w \in Workspaces |-> None]

\* the finally block of start (lines 156-158)
Finally(c, id) == Clear(c, id)

NewOp(id) == [w |-> id, state |-> "running", handlers |-> {}, att |-> {}]

\* lines 152-155: connect, attach the handler, await the operation
Launched(call, op) == [call EXCEPT !.pc = "awaitOp", !.op = op, !.cmd = op]

\* createCommand rejected: the finally block runs and start rejects
CreateFailed(call) ==
    [call EXCEPT !.pc = "done", !.cleared = TRUE, !.clearedAt = Len(ops),
                 !.log = <<"clear">>,
                 !.result = Rejected("createCommand")]

CreateSettles(n, ok) ==
    /\ n \in 1..Len(calls)
    /\ calls[n].pc = "awaitCreate"
    /\ LET id == calls[n].w
           op == Len(ops) + 1
       IN IF ok
          THEN /\ ops' = StreamAttach(Append(ops, NewOp(id)), op,
                                      calls[n].v, StartListener(n))
               /\ cache' = Connect(cache, id, op)
               /\ calls' = [calls EXCEPT ![n] = Launched(@, op)]
          ELSE /\ ops' = ops
               /\ cache' = Finally(cache, id)
               /\ calls' = [calls EXCEPT ![n] = CreateFailed(@)]
    /\ event' = None
    /\ UNCHANGED <<streaming, subs>>

\* ---- environment: the promise of a running start command settles ----
OpSettle(op, outcome) ==
    /\ op \in 1..Len(ops)
    /\ ops[op].state = "running"
    /\ ops' = [ops EXCEPT ![op].state = outcome]
    /\ event' = None
    /\ UNCHANGED <<streaming, cache, calls, subs>>

\* ---- environment: a running start command emits a stream event ----
\* the registry notifies every handler registered at that moment
Notified(op) == ops[op].handlers

Emit(op) ==
    /\ op \in 1..Len(ops)
    /\ ops[op].state = "running"
    /\ streaming
    /\ event' = op
    /\ UNCHANGED <<streaming, cache, ops, calls, subs>>

\* ---- start: the awaited operation has settled (lines 146-148, 155-160) ----
\* history: what a call does once its await is over, in order. On the join
\* path `return this.getStatus(id)` (line 148) calls getStatus inside the try
\* block, and the finally block runs after it; on the launch path the finally
\* block runs first and getStatus is called at line 160.
LogResolved(call) ==
    IF call.cmd = None THEN <<"getStatus", "clear">> ELSE <<"clear", "getStatus">>

\* faulty variant: the rejection is caught and the status queried all the same
AfterAwaitCaught(call, state) ==
    [call EXCEPT !.pc = "awaitStatus", !.queried = TRUE,
                 !.cleared = TRUE, !.clearedAt = Len(ops),
                 !.log = LogResolved(call)]

\* faulty variant: the join path returns without running the finally block
AfterAwaitJoinSkips(call, state) ==
    IF state = "resolved"
    THEN [call EXCEPT !.pc = "awaitStatus", !.queried = TRUE,
                      !.cleared = (call.cmd # None), !.clearedAt = Len(ops),
                      !.log = IF call.cmd = None THEN <<"getStatus">>
                                                 ELSE <<"clear", "getStatus">>]
    ELSE [call EXCEPT !.pc = "done", !.cleared = TRUE, !.clearedAt = Len(ops),
                      !.log = <<"clear">>,
                      !.result = Rejected("operation")]

\* the call after its await, with the finally block done: a resolved
\* operation leads to getStatus, a rejected one leaves start through finally
AfterAwait(call, state) ==
    IF state = "resolved"
    THEN [call EXCEPT !.pc = "awaitStatus", !.queried = TRUE,
                      !.cleared = TRUE, !.clearedAt = Len(ops),
                      !.log = LogResolved(call)]
    ELSE [call EXCEPT !.pc = "done", !.cleared = TRUE, !.clearedAt = Len(ops),
                      !.log = <<"clear">>,
                      !.result = Rejected("operation")]

\* faulty variant: the join path goes on without awaiting the operation
OpResumeNoAwait(n) ==
    /\ n \in 1..Len(calls)
    /\ calls[n].pc \in {"awaitJoin", "awaitOp"}
    /\ calls[n].pc = "awaitOp" => ops[calls[n].op].state # "running"
    /\ cache' = Finally(cache, calls[n].w)
    /\ calls' = [calls EXCEPT ![n] =
                     AfterAwait(@, IF ops[calls[n].op].state = "rejected"
                                   THEN "rejected" ELSE "resolved")]
    /\ event' = None
    /\ UNCHANGED <<streaming, ops, subs>>

\* faulty variant: the join path waits for the operation through the cache
\* entry, so it only goes on while the entry it found is still there
OpResumeViaCache(n) ==
    /\ n \in 1..Len(calls)
    /\ calls[n].pc \in {"awaitJoin", "awaitOp"}
    /\ ops[calls[n].op].state # "running"
    /\ calls[n].pc = "awaitJoin" => Get(calls[n].w) = calls[n].op
    /\ cache' = Finally(cache, calls[n].w)
    /\ calls' = [calls EXCEPT ![n] = AfterAwait(@, ops[calls[n].op].state)]
    /\ event' = None
    /\ UNCHANGED <<streaming, ops, subs>>

\* history: orphan records that the entry of the awaited operation was no
\* longer in the cache (cleared or replaced) when the call resumed
OpResume(n) ==
    /\ n \in 1..Len(calls)
    /\ calls[n].pc \in {"awaitJoin", "awaitOp"}
    /\ ops[calls[n].op].state # "running"
    /\ cache' = Finally(cache, calls[n].w)
    /\ calls' = [calls EXCEPT ![n] =
                     [AfterAwait(calls[n], ops[calls[n].op].state)
                          EXCEPT !.orphan = (Get(calls[n].w) # calls[n].op)]]
    /\ event' = None
    /\ UNCHANGED <<streaming, ops, subs>>

\* ---- getStatus settles (lines 119-126): start settles with its outcome ----
\* faulty variant: a failed query is swallowed and reported as a status
StatusResultSwallowed(outcome) ==
    IF outcome \in Statuses THEN Resolved(outcome) ELSE Resolved("Stopped")

\* the settled promise of getStatus, which start returns
StatusResult(outcome) ==
    IF outcome \in Statuses THEN Resolved(outcome) ELSE Rejected("getStatus")

StatusSettle(n, outcome) ==
    /\ n \in 1..Len(calls)
    /\ calls[n].pc = "awaitStatus"
    /\ calls' = [calls EXCEPT ![n].pc = "done", ![n].status = outcome,
                              ![n].result = StatusResult(outcome)]
    /\ event' = None
    /\ UNCHANGED <<streaming, cache, ops, subs>>

\* ---- subscribeToStart (lines 127-136) ----
NewSub(id, viewID, ret) ==
    [w |-> id, v |-> viewID, hit |-> exists(Get(id)), ret |-> ret,
     op |-> Get(id), unsubs |-> 0]

\* faulty variant, the guard of line 129 negated: a hit returns noop, a miss reads .stream of
\* undefined and throws
SubscribeToStartNegated(id, viewID) ==
    /\ Len(subs) < MaxSubs
    /\ LET maybeRunningCommand == Get(id)
       IN IF exists(maybeRunningCommand)
          THEN subs' = Append(subs, NewSub(id, viewID, "noop"))
          ELSE subs' = Append(subs, NewSub(id, viewID, "threw"))
    /\ event' = None
    /\ UNCHANGED <<streaming, cache, ops, calls>>

\* faulty variant: a subscribe that starts the command itself when none is running
SubscribeToStartLaunches(id, viewID) ==
    /\ Len(subs) < MaxSubs
    /\ LET n == Len(subs) + 1
           maybeRunningCommand == Get(id)
           op == Len(ops) + 1
       IN IF ~exists(maybeRunningCommand)
          THEN /\ subs' = Append(subs, NewSub(id, viewID, "unsubscribe"))
               /\ ops' = StreamAttach(Append(ops, NewOp(id)), op, viewID, SubListener(n))
               /\ cache' = Connect(cache, id, op)
          ELSE /\ subs' = Append(subs, NewSub(id, viewID, "unsubscribe"))
               /\ ops' = StreamAttach(ops, maybeRunningCommand, viewID, SubListener(n))
               /\ cache' = cache
    /\ event' = None
    /\ UNCHANGED <<streaming, calls>>

SubscribeToStart(id, viewID) ==
    /\ Len(subs) < MaxSubs
    /\ LET n == Len(subs) + 1
           maybeRunningCommand == Get(id)
       IN IF ~exists(maybeRunningCommand)
          THEN /\ subs' = Append(subs, NewSub(id, viewID, "noop"))
               /\ ops' = ops
          ELSE /\ subs' = Append(subs, NewSub(id, viewID, "unsubscribe"))
               /\ ops' = StreamAttach(ops, maybeRunningCommand, viewID, SubListener(n))
    /\ event' = None
    /\ UNCHANGED <<streaming, cache, calls>>

\* ---- the function subscribeToStart returned is called (line 135) ----
\* faulty variant: unsubscribing also drops the cache entry of the workspace
CallUnsubscribeClears(n) ==
    /\ n \in 1..Len(subs)
    /\ subs[n].unsubs < MaxUnsubs
    /\ subs[n].ret # "threw"
    /\ subs' = [subs EXCEPT ![n].unsubs = @ + 1]
    /\ ops' = IF subs[n].ret = "unsubscribe" /\ streaming
              THEN [ops EXCEPT ![subs[n].op].handlers =
                                   Unsubscribe(@, createStartHandler(subs[n].v, SubListener(n))),
                               ![subs[n].op].att = Detach(@, subs[n].v)]
              ELSE ops
    /\ cache' = Clear(cache, subs[n].w)
    /\ event' = None
    /\ UNCHANGED <<streaming, calls>>

CallUnsubscribe(n) ==
    /\ n \in 1..Len(subs)
    /\ subs[n].unsubs < MaxUnsubs
    /\ subs[n].ret # "threw"
    /\ subs' = [subs EXCEPT ![n].unsubs = @ + 1]
    /\ ops' = IF subs[n].ret = "unsubscribe" /\ streaming
              THEN [ops EXCEPT ![subs[n].op].handlers =
                                   Unsubscribe(@, createStartHandler(subs[n].v, SubListener(n))),
                               ![subs[n].op].att = Detach(@, subs[n].v)]
              ELSE ops
    /\ event' = None
    /\ UNCHANGED <<streaming, cache, calls>>

Next ==
    \/ \E id \in IdsW, viewID \in IdsV : StartBegin(id, viewID)
    \/ \E n \in 1..MaxCalls, ok \in BOOLEAN : CreateSettles(n, ok)
    \/ \E op \in 1..MaxCalls, outcome \in {"resolved", "rejected"} : OpSettle(op, outcome)
    \/ \E op \in 1..MaxCalls : Emit(op)
    \/ \E n \in 1..MaxCalls : OpResume(n)
    \/ \E n \in 1..MaxCalls, outcome \in Statuses \cup {"fail"} : StatusSettle(n, outcome)
    \/ \E id \in IdsW, viewID \in IdsV : SubscribeToStart(id, viewID)
    \/ \E n \in 1..MaxSubs : CallUnsubscribe(n)

Spec == Init /\ [][Next]_vars

\* the start calls alone: no subscribeToStart, no stream event
NextStart ==
    \/ \E id \in IdsW, viewID \in IdsV : StartBegin(id, viewID)
    \/ \E n \in 1..MaxCalls, ok \in BOOLEAN : CreateSettles(n, ok)
    \/ \E op \in 1..MaxCalls, outcome \in {"resolved", "rejected"} : OpSettle(op, outcome)
    \/ \E n \in 1..MaxCalls : OpResume(n)
    \/ \E n \in 1..MaxCalls, outcome \in Statuses \cup {"fail"} : StatusSettle(n, outcome)

SpecStart == Init /\ [][NextStart]_vars

\* the start calls under fairness: createCommand, the operation and the status
\* query each settle eventually, and a call whose awaited promise has settled
\* is resumed eventually
Fairness ==
    /\ \A n \in 1..MaxCalls : WF_vars(\E ok \in BOOLEAN : CreateSettles(n, ok))
    /\ \A op \in 1..MaxCalls :
           WF_vars(\E outcome \in {"resolved", "rejected"} : OpSettle(op, outcome))
    /\ \A n \in 1..MaxCalls : WF_vars(OpResume(n))
    /\ \A n \in 1..MaxCalls :
           WF_vars(\E outcome \in Statuses \cup {"fail"} : StatusSettle(n, outcome))

SpecLive == SpecStart /\ Fairness

\* ---- vocabulary of the properties ----
Calls == 1..Len(calls)
Subs == 1..Len(subs)
IsJoin(n) == calls[n].cmd = None /\ calls[n].op # None
IsLaunch(n) == calls[n].cmd # None
Settled(n) == calls[n].pc = "done"
Listeners(op) == {h.notify : h \in Notified(op)}

\* ---- C1: single-flight ----
\* C1 (as claimed): when start(W) is invoked while an earlier start(W) has not
\* yet left its try block, only one of the two calls creates a start command,
\* and neither of them settles while the command it awaited is still running.
SingleFlight ==
    \A b \in Calls : \A a \in calls[b].overlap :
        /\ ~(IsLaunch(a) /\ IsLaunch(b))
        /\ \A n \in {a, b} :
               Settled(n) /\ calls[n].op # None => ops[calls[n].op].state # "running"

CleanupAtSettle ==
    [][(\A b \in 1..Len(calls') : calls'[b].overlap = {}) =>
          \A n \in Calls :
              (~Settled(n) /\ calls'[n].pc = "done") => ~exists(cache'[calls[n].w])]_vars

\* C3 (amended): a start(W) call has run clear(W) by the time it settles, and
\* an entry the cache holds for W from then on was connected after that clear.
CleanupBeforeSettle ==
    \A n \in Calls :
        Settled(n) =>
            /\ calls[n].cleared
            /\ exists(cache[calls[n].w]) => cache[calls[n].w] > calls[n].clearedAt

\* a call has settled with a status while the cache holds a command for its
\* workspace that was connected after the call's clear
CleanupBeforeSettleWitness ==
    \E n \in Calls :
        /\ Settled(n) /\ calls[n].result.kind = "resolved"
        /\ exists(cache[calls[n].w])

\* ---- C4: two start calls back to back ----
\* C4 (as claimed): of two start calls for W from different views, the second
\* invoked while the first was still in its try block, both await the same
\* command, and a stream event of the command of either call is delivered to
\* the listeners of both. (No subscribeToStart call takes part.)
BackToBack ==
    \A b \in Calls : \A a \in calls[b].overlap :
        (/\ subs = <<>>
         /\ calls[a].v # calls[b].v
         /\ calls[a].op # None /\ calls[b].op # None
         /\ event \in {calls[a].op, calls[b].op})
            => /\ calls[a].op = calls[b].op
               /\ {StartListener(a), StartListener(b)} \subseteq Listeners(event)

\* ---- C5: fan-out ----
\* C5: a stream event is delivered to the listener of every view attached to
\* the stream of the command that emitted it (the latest listener each view
\* attached and did not unsubscribe).
FanOut ==
    event # None => \A a \in ops[event].att : a.lst \in Listeners(event)

\* an event is emitted while two views are attached
FanOutWitness ==
    /\ event # None
    /\ Cardinality(ops[event].att) >= 2
    /\ Cardinality(Listeners(event)) >= 2

\* ---- C6: replace by identity ----
\* C6: a stream event is delivered to at most one handler of any one view,
\* however many handlers were attached for that view.
ReplaceByIdentity ==
    event # None =>
        \A v \in Views : Cardinality({h \in Notified(event) : h.id = v}) <= 1

\* an event is emitted after two start calls and a subscribeToStart call of
\* one view attached to the stream, and a handler of that view is notified
ReplaceByIdentityWitness ==
    /\ event # None
    /\ \E a, b \in Calls, n \in Subs :
           /\ a # b /\ calls[a].v = calls[b].v /\ calls[a].v = subs[n].v
           /\ calls[a].op = event /\ calls[b].op = event
           /\ subs[n].op = event /\ subs[n].unsubs = 0
           /\ \E h \in Notified(event) : h.id = calls[a].v

\* ---- C7: no-op subscribe ----
\* C7: subscribeToStart called with no entry for W in the cache returns noop,
\* which may be called again and again, and its listener is registered with
\* no stream and notified of no event, those of a later command for W included.
NoOpSubscribe ==
    \A n \in Subs :
        ~subs[n].hit =>
            /\ subs[n].ret = "noop"
            /\ \A op \in 1..Len(ops) : SubListener(n) \notin Listeners(op)

\* the returned function was called twice, and a command for W launched
\* later emits an event to a listener
NoOpSubscribeWitness ==
    \E n \in Subs :
        /\ ~subs[n].hit
        /\ subs[n].unsubs >= 2
        /\ event # None
        /\ ops[event].w = subs[n].w
        /\ Listeners(event) # {}

\* ---- C8: subscribeToStart is read-only ----
\* C8: a subscribeToStart call issues no command, settles none, leaves the
\* cache and the start calls as they are; with an entry for W it registers its
\* handler with the stream of that entry, and with none it changes no stream.
SubscribeReadOnly ==
    [][Len(subs') > Len(subs) =>
          /\ cache' = cache
          /\ calls' = calls
          /\ Len(ops') = Len(ops)
          /\ \A op \in 1..Len(ops) :
                 /\ ops'[op].state = ops[op].state
                 /\ op # cache[subs'[Len(subs')].w] => ops'[op] = ops[op]
          /\ (exists(cache[subs'[Len(subs')].w]) /\ streaming)
                 => SubListener(Len(subs'))
                        \in {h.notify : h \in ops'[cache[subs'[Len(subs')].w]].handlers}]_vars

\* a subscribeToStart call found an entry and its handler is on the stream;
\* the cache still holds the entry
SubscribeReadOnlyWitness ==
    \E n \in Subs :
        /\ subs[n].hit
        /\ cache[subs[n].w] = subs[n].op
        /\ SubListener(n) \in Listeners(subs[n].op)

\* ---- C9: idempotent clear ----
\* C9: the clear(W) of a start call's finally block, run when the cache has
\* no entry for W, leaves the whole cache as it is, and the call goes on as
\* after any clear.
IdempotentClear ==
    [][\A n \in Calls :
          (~calls[n].cleared /\ calls'[n].cleared /\ ~exists(cache[calls[n].w]))
              => /\ cache' = cache
                 /\ calls'[n].pc \in {"awaitStatus", "done"}]_vars

\* two calls awaited one command and both ran clear: the second clear found
\* no entry
IdempotentClearWitness ==
    \E a, b \in Calls :
        /\ a # b /\ calls[a].op # None /\ calls[a].op = calls[b].op
        /\ calls[a].cleared /\ calls[b].cleared

\* ---- C10: a failing status query ----
\* C10: a start call whose status query failed has rejected with that
\* failure, and one whose query answered has resolved with the answer.
StatusFailurePropagates ==
    \A n \in Calls :
        /\ calls[n].status = "fail" => calls[n].result = Rejected("getStatus")
        /\ calls[n].status \in Statuses => calls[n].result = Resolved(calls[n].status)

\* the status query failed for a launching call and for a joining call
StatusFailurePropagatesWitness ==
    \E a, b \in Calls :
        /\ IsLaunch(a) /\ IsJoin(b)
        /\ calls[a].status = "fail" /\ calls[b].status = "fail"
        /\ Settled(a) /\ Settled(b)

\* ---- C11: the precondition of connect ----
InTry(n) == calls[n].pc \in {"awaitCreate", "awaitOp", "awaitJoin"}
Clears(n) == Cardinality({i \in DOMAIN calls[n].log : calls[n].log[i] = "clear"})

\* C11 (as claimed): whenever a start call runs connect(W, cmd), the cache
\* has no entry for W: no other call for W got to run between the call's
\* lookup and its connect.
ConnectOnEmpty ==
    [][\A n \in Calls :
          (calls[n].pc = "awaitCreate" /\ calls'[n].pc = "awaitOp")
              => ~exists(cache[calls[n].w])]_vars

\* ---- C12: how often clear is called ----
\* C12 (as claimed): over the lifecycle of one start command, at most one of
\* the calls that launched or joined it calls clear(W).
ClearOncePerOperation ==
    \A op \in 1..Len(ops) :
        Cardinality({n \in Calls : calls[n].op = op /\ Clears(n) > 0}) <= 1

\* C12 (amended): every start call that launched or joined a start command
\* calls clear(W) exactly once, when it leaves its await, which is after the
\* command has settled and on the success and failure paths alike; a command
\* that several calls awaited thus sees clear(W) once per call.
ClearOncePerCall ==
    \A n \in Calls :
        /\ InTry(n) => Clears(n) = 0
        /\ ~InTry(n) => Clears(n) = 1
        /\ (Clears(n) > 0 /\ calls[n].op # None) => ops[calls[n].op].state # "running"

\* a launching call and a call that joined it have each called clear after
\* their command resolved
ClearOncePerCallWitness ==
    \E a, b \in Calls :
        /\ IsLaunch(a) /\ IsJoin(b) /\ calls[b].op = calls[a].op
        /\ ops[calls[a].op].state = "resolved"
        /\ Clears(a) = 1 /\ Clears(b) = 1

\* ---- C13: the status query comes after the cleanup ----
\* C13 (as claimed): a start call, on the join path as on the launch path,
\* calls getStatus only after it has called clear(W).
StatusAfterClear ==
    \A n \in Calls :
        \A i \in DOMAIN calls[n].log :
            calls[n].log[i] = "getStatus"
                => \E j \in 1..(i - 1) : calls[n].log[j] = "clear"

\* ---- C14: cleanup on every exit path ----
\* C14: the step in which a start call leaves its try block, whether its
\* command creation failed, its operation rejected or resolved, or it joined
\* and returns early, calls clear(W) and leaves the cache without an entry for
\* W; a call settles only in or after such a step.
CleanupEveryPath ==
    [][\A n \in Calls :
          /\ (InTry(n) /\ calls'[n].pc \in {"awaitStatus", "done"})
                 => /\ ~exists(cache'[calls[n].w])
                    /\ calls'[n].cleared
                    /\ "clear" \in {calls'[n].log[i] : i \in DOMAIN calls'[n].log}
          /\ calls'[n].pc = "done" => calls'[n].cleared]_vars

\* a call that joined has returned early and settled, the call that launched
\* has settled too, and the cache has no entry for their workspace
CleanupEveryPathWitness ==
    \E a, b \in Calls :
        /\ IsLaunch(a) /\ IsJoin(b) /\ calls[b].op = calls[a].op
        /\ Settled(a) /\ Settled(b)
        /\ calls[b].result.kind = "resolved"
        /\ calls[a].cleared /\ calls[b].cleared
        /\ ~exists(cache[calls[a].w])

\* ---- C15: a joining call shares the operation ----
\* C15: a start call that found an entry for W awaits the command some
\* launching call connected; it issues no command of its own (every command
\* was issued by a launching call), and it has neither left its await, queried
\* the status nor settled while that command is running.
JoinSharesOperation ==
    /\ Len(ops) = Cardinality({a \in Calls : IsLaunch(a)})
    /\ \A n \in Calls :
           IsJoin(n) =>
               /\ \E a \in Calls : a # n /\ calls[a].cmd = calls[n].op
               /\ (~InTry(n) \/ calls[n].queried \/ Settled(n))
                      => ops[calls[n].op].state # "running"

\* a joining call has settled with a status while the call that launched the
\* command has not resumed yet
JoinSharesOperationWitness ==
    \E a, b \in Calls :
        /\ IsLaunch(a) /\ IsJoin(b) /\ calls[b].op = calls[a].cmd
        /\ calls[a].pc = "awaitOp"
        /\ Settled(b) /\ calls[b].result.kind = "resolved"

\* ---- C16: unsubscribing ----
\* C16: a call of the function subscribeToStart returned for view V leaves
\* the cache, the start calls and the state of every command as they are, and
\* changes no stream other than by removing the handler of V from the stream
\* it subscribed to: the handlers of the other views stay registered.
UnsubscribeFrame ==
    [][\A n \in Subs :
          subs'[n].unsubs > subs[n].unsubs =>
              /\ cache' = cache
              /\ calls' = calls
              /\ Len(ops') = Len(ops)
              /\ \A op \in 1..Len(ops) :
                     /\ ops'[op].state = ops[op].state
                     /\ op # subs[n].op => ops'[op] = ops[op]
                     /\ {h \in ops'[op].handlers : h.id # subs[n].v}
                            = {h \in ops[op].handlers : h.id # subs[n].v}]_vars

\* after a view unsubscribed, its command, still running and still cached,
\* emits an event that reaches the listener of another view and not its own
UnsubscribeFrameWitness ==
    \E n \in Subs :
        /\ subs[n].ret = "unsubscribe" /\ subs[n].unsubs >= 1
        /\ event = subs[n].op
        /\ cache[subs[n].w] = subs[n].op
        /\ SubListener(n) \notin Listeners(event)
        /\ \E h \in Notified(event) : h.id # subs[n].v

\* ---- C17: an entry stays while its command is in flight ----
\* C17: in every reachable state, a start command that connect registered and
\* that has not settled yet is the entry get returns for its workspace: no
\* clear or connect of another start call evicts or replaces it.
InFlightCached ==
    \A op \in 1..Len(ops) :
        ops[op].state = "running" => Get(ops[op].w) = op

\* ---- C18: workspaces are independent ----
\* the workspaces other than w keep their cache entry and their commands,
\* streams included, and no command is created for them
OthersUntouched(w) ==
    /\ \A w2 \in Workspaces \ {w} : cache'[w2] = cache[w2]
    /\ \A op \in 1..Len(ops) : ops[op].w # w => ops'[op] = ops[op]
    /\ \A op \in (Len(ops) + 1)..Len(ops') : ops'[op].w = w

\* C18: a step of a start call or of a subscribeToStart call for workspace W1
\* (its lookup, its connect, its handler attachment, its clear, its
\* unsubscribe) leaves the cache entry and the stream of every other workspace
\* W2 as they are; and the entry of a workspace is a command of that workspace.
WorkspacesIndependent ==
    [][/\ \A n \in 1..Len(calls') :
              (n > Len(calls) \/ calls'[n] # calls[n]) => OthersUntouched(calls'[n].w)
       /\ \A n \in 1..Len(subs') :
              (n > Len(subs) \/ subs'[n] # subs[n]) => OthersUntouched(subs'[n].w)
       /\ \A w \in Workspaces : exists(cache'[w]) => ops'[cache'[w]].w = w]_vars

\* a start call for one workspace has run its clear and settled while the
\* command of another workspace is still running and cached, and a view
\* subscribed to the start of the first workspace
WorkspacesIndependentWitness ==
    \E a, b \in Calls : \E s \in Subs :
        /\ calls[a].w # calls[b].w
        /\ Settled(a) /\ calls[a].cleared
        /\ ~exists(cache[calls[a].w])
        /\ IsLaunch(b) /\ ops[calls[b].cmd].state = "running"
        /\ cache[calls[b].w] = calls[b].cmd
        /\ subs[s].w = calls[a].w

====
